---------------------------- MODULE Spec2Model ----------------------------
(***************************************************************************)
(* State-machine model of the experiment scripts of                        *)
(* mcmc_corr_score_diffusion:                                              *)
(*   exp/find_stepsize.py   main  - the step-size calibration run          *)
(*   exp/simulation.py      main  - production sampling                    *)
(*   exp/utils.py           SimulationConfig.from_json/_validate,          *)
(*                          get_step_size                                  *)
(*   src/model/trainers/classifier.py  DiffusionClassifier's callbacks     *)
(* The samplers the scripts import (src.samplers.mcmc, src.guidance.base)  *)
(* are modelled from their written design: the adaptive step-size search,  *)
(* its batch-stacking variant, the reverse loop of the guided sampler, the  *)
(* accept/reject step of the Hamiltonian correction sampler and the        *)
(* respaced timestep sequence.                                             *)
(*                                                                         *)
(* Abstractions.  A step size is an integer level on a log scale (one      *)
(* level up = one increase of the search rule).  An acceptance statistic   *)
(* is an integer rate in 0..MaxRate, the acceptance band a pair <<lo,hi>>  *)
(* of rates.  The statistic the correction sampler reports is an input:    *)
(* every search iteration draws it from all rates, so every                *)
(* step-size-to-acceptance curve (monotone or not, noisy or not) is a      *)
(* behaviour of the model.  The sample batch is a token that records the   *)
(* timestep it stands at and the operation that produced it.               *)
(***************************************************************************)
EXTENDS Integers, Sequences, FiniteSets, TLC

VARIABLES
    prog,     \* which entry point this process runs
    pc,       \* position in that entry point
    err,      \* the exception that ended the run ("none" while it runs)
    args,     \* find_stepsize.py: the parsed command line
    device,   \* sequence of device computations done so far
    cal,      \* the calibrating sampler: guided sampler + step-size wrapper
    cal2,     \* second calibrator, used only by the lockstep comparison
    file,     \* ./adaptive_step_sizes.p as find_stepsize.py leaves it
    writes,   \* number of times the process opened a step-size file for writing
    config,   \* simulation.py: the JSON configuration read
    cfg,      \* simulation.py: what from_json returned
    store,    \* models/step_sizes/: path -> persisted table
    query,    \* get_step_size: the arguments of the call
    loaded,   \* get_step_size: what the call gave back
    time_steps, \* find_stepsize.py: the timestep indices the schedule retains
    hmc,      \* a batch under the Hamiltonian correction sampler
    hmc2,     \* the same batch with other proposals for the other samples
    clf       \* the DiffusionClassifier training module's counters

vars == <<prog, pc, err, args, device, cal, cal2, file, writes,
          config, cfg, store, query, loaded, time_steps, hmc, hmc2, clf>>

\* the state of the components a script does not touch
aux == <<time_steps, hmc, hmc2, clf>>

-----------------------------------------------------------------------------
(* Bounds of the model *)

\* largest number of diffusion steps (full or respaced) on the command line
MaxSteps == 2
\* largest --max_iter
MaxIter == 2
\* largest --num_samples / --batch_size
MaxSamples == 2
\* largest number of correction-sampler runs one calibration run may need
\* (respaced steps * sub-batches * max_iter)
MaxSamplerRuns == 4
\* acceptance rates are 0..MaxRate
MaxRate == 2
\* largest number of diffusion steps when only the schedule is built
MaxFullSteps == 6

Rates == 0..MaxRate
\* accept_rate_bound: [lower, upper] with lower <= upper, strictly inside the rates
Bands == {bd \in Rates \X Rates : bd[1] >= 1 /\ bd[1] <= bd[2] /\ bd[2] < MaxRate + 1}

Last(s) == s[Len(s)]

-----------------------------------------------------------------------------
(* The guided sampler and the step-size calibrator *)

\* step_sizes = a * betas ** b with a = b = 1: the default step size of a
\* timestep is its noise variance, which grows with the timestep
InitialStep(t) == t + 1

\* the wrapper's diagnostic record: one slot per timestep index 0..Tp, the
\* highest one (the start of the reverse chain) never populated
EmptyRes(Tp) ==
    [t \in 0..Tp |-> [step_sizes |-> <<>>, accepts |-> <<>>,
                      n_iter |-> <<>>, converged |-> <<>>]]

\* number of sequential sub-batches of the stacking sampler
NumSubBatches(num_samples, batch_size) ==
    (num_samples + batch_size - 1) \div batch_size

\* the calibrating sampler after construction.  phase/b/t: position of the
\* reverse loop (sub-batch b, timestep t); x: the sample batch; level, iter:
\* the running search; res: the wrapper's record (sampler.res).  visited,
\* consumed, obs, corrected and ncalls log what happened: the timesteps the
\* loop stood at, the batches the reverse steps consumed, the (step size,
\* statistic) pairs of the running search, the timesteps the correction
\* sampler ran at and the number of its runs.
NewCal(mode, nsub, Tp, band, max_iter) ==
    [mode |-> mode, nsub |-> nsub, Tp |-> Tp,
     lo |-> band[1], hi |-> band[2], max_iter |-> max_iter,
     phase |-> "idle", b |-> 0, t |-> Tp,
     x |-> [at |-> Tp, by |-> "none"],
     visited |-> <<>>, consumed |-> <<>>,
     level |-> 0, iter |-> 0, obs |-> <<>>,
     res |-> EmptyRes(Tp), corrected |-> {}, ncalls |-> 0]

NoCal == NewCal("none", 0, 0, <<1, 1>>, 1)

InBand(c, a) == c.lo <= a /\ a <= c.hi

\* start of one sample call (one reverse loop): fresh noise at the top timestep
StartLoop(c) ==
    [c EXCEPT !.phase = "reverse", !.b = c.b + 1, !.t = c.Tp,
              !.x = [at |-> c.Tp, by |-> "noise"],
              !.visited = <<c.Tp>>, !.consumed = <<>>,
              !.level = 0, !.iter = 0, !.obs = <<>>]

\* (mutant) the stacking search warm-starts from the timestep resolved just
\* before, not from the previous sub-batch
StartLevelFromNeighbour(c, t) ==
    IF c.mode = "stacking" /\ t < c.Tp /\ c.res[t + 1].step_sizes # <<>>
    THEN Last(c.res[t + 1].step_sizes)
    ELSE InitialStep(t)

\* (mutant) every search starts from the fixed initial guess
StartLevelCold(c, t) == InitialStep(t)

\* the step size a search starts from
StartLevel(c, t) ==
    IF c.mode = "stacking" /\ c.b > 1 /\ c.res[t].step_sizes # <<>>
    THEN Last(c.res[t].step_sizes)
    ELSE InitialStep(t)

\* steps (1)-(3) of the reverse loop at timestep c.t >= 1: the reverse
\* transition consumes x_t and draws x_{t-1}; the correction search for
\* timestep t-1 then starts
ReverseStep(c) ==
    [c EXCEPT !.x = [at |-> c.t - 1, by |-> "reverse"],
              !.consumed = Append(c.consumed, c.x),
              !.phase = "search",
              !.level = StartLevel(c, c.t - 1),
              !.iter = 0, !.obs = <<>>]

\* (mutant) the search moves the other way
AdjustInverted(c, a) == IF a < c.lo THEN c.level - 1 ELSE c.level + 1

\* the search rule: a statistic below the band asks for a larger step, one
\* above the band for a smaller step
Adjust(c, a) ==
    IF a < c.lo THEN c.level + 1 ELSE c.level - 1

\* (mutant) the loop index is decremented once more after a correction
ResolveSkips(c, a, n, ok) ==
    LET k == c.t - 1
        j == IF k >= 1 THEN k - 1 ELSE k
        r == c.res[k]
        c1 == [c EXCEPT !.res[k] =
                  [step_sizes |-> Append(r.step_sizes, c.level),
                   accepts    |-> Append(r.accepts, a),
                   n_iter     |-> Append(r.n_iter, n),
                   converged  |-> Append(r.converged, ok)],
                 !.x = [at |-> k, by |-> "mcmc"],
                 !.t = j,
                 !.visited = Append(c.visited, j)]
    IN  [c1 EXCEPT !.phase = IF j = 0 THEN "loop_done" ELSE "reverse"]

\* the search ends: the candidate is recorded for timestep t-1 and the
\* reverse loop moves on to it
Resolve(c, a, n, ok) ==
    LET k == c.t - 1
        r == c.res[k]
        c1 == [c EXCEPT !.res[k] =
                  [step_sizes |-> Append(r.step_sizes, c.level),
                   accepts    |-> Append(r.accepts, a),
                   n_iter     |-> Append(r.n_iter, n),
                   converged  |-> Append(r.converged, ok)],
                 !.x = [at |-> k, by |-> "mcmc"],
                 !.t = k,
                 !.visited = Append(c.visited, k)]
    IN  [c1 EXCEPT !.phase = IF k = 0 THEN "loop_done" ELSE "reverse"]

\* (mutant) every candidate tried is appended to the table as the search goes
SearchIterationRecordsAll(c, a) ==
    LET n  == c.iter + 1
        c1 == [c EXCEPT !.iter = n,
                        !.obs = Append(c.obs, [level |-> c.level, rate |-> a]),
                        !.corrected = c.corrected \cup {c.t - 1},
                        !.ncalls = c.ncalls + 1]
    IN  IF InBand(c, a) THEN Resolve(c1, a, n, TRUE)
        ELSE IF n >= c.max_iter THEN Resolve(c1, a, n, FALSE)
        ELSE [c1 EXCEPT !.level = Adjust(c, a),
                        !.res[c.t - 1].step_sizes = Append(@, c.level)]

\* one search iteration: the wrapped correction sampler runs at the current
\* candidate and reports statistic a
SearchIteration(c, a) ==
    LET n  == c.iter + 1
        c1 == [c EXCEPT !.iter = n,
                        !.obs = Append(c.obs, [level |-> c.level, rate |-> a]),
                        !.corrected = c.corrected \cup {c.t - 1},
                        !.ncalls = c.ncalls + 1]
    IN  IF InBand(c, a) THEN Resolve(c1, a, n, TRUE)
        ELSE IF n >= c.max_iter THEN Resolve(c1, a, n, FALSE)
        ELSE [c1 EXCEPT !.level = Adjust(c, a)]


-----------------------------------------------------------------------------
(* exp/find_stepsize.py *)

DiffModels == {"mnist", "256x256_diffusion", "other"}

\* parse_args: the command lines the model runs
FsArgs ==
    {a \in [diff_model : DiffModels,
            num_diff_steps : 1..MaxSteps,
            respaced_num_diff_steps : 1..MaxSteps,
            batch_size : 1..MaxSamples,
            num_samples : 1..MaxSamples,
            accept_rate_bound : Bands,
            max_iter : 1..MaxIter] :
        a.respaced_num_diff_steps
          * NumSubBatches(a.num_samples, a.batch_size)
          * a.max_iter <= MaxSamplerRuns}

NoArgs ==
    [diff_model |-> "none", num_diff_steps |-> 0, respaced_num_diff_steps |-> 0,
     batch_size |-> 0, num_samples |-> 0, accept_rate_bound |-> <<1, 1>>,
     max_iter |-> 0]

\* `if batch_size < num_samples:` chooses the stacking wrapper and sampler
UseStacking(a) == a.batch_size < a.num_samples

\* (mutant) the wrapper is built with a fixed band, not the one parsed
WrapperBoundsDefault(a) == <<1, 1>>

\* accept_rate_bound=accept_rate_bound handed to the wrapper
WrapperBounds(a) == a.accept_rate_bound

\* (mutant) the wrapper is allowed one iteration more than asked for
WrapperMaxIterPlusOne(a) == a.max_iter + 1

\* (mutant) the wrapper is allowed twice the iterations asked for
WrapperMaxIterDouble(a) == a.max_iter * 2

\* max_iter=max_iter handed to the wrapper
WrapperMaxIter(a) == a.max_iter

\* lines 25-45: the device is chosen and, for a known model family, the
\* diffusion model and the classifier are loaded onto it.  For any other
\* name nothing is loaded and beta_schedule stays unbound, so line 49 raises.
FS_LoadModels ==
    /\ prog = "find_stepsize" /\ pc = "start"
    /\ IF args.diff_model \in {"mnist", "256x256_diffusion"}
       THEN /\ device' = device \o <<"load_diff_model", "load_classifier">>
            /\ pc' = "loaded"
            /\ err' = err
       ELSE /\ device' = device
            /\ pc' = "error"
            /\ err' = "NameError"
    /\ UNCHANGED <<aux, prog, args, cal, cal2, file, writes, config, cfg, store, query, loaded>>

\* (mutant) the indices are counted from 1
FullTimeStepsFromOne(T) == [i \in 1..T |-> i]

\* line 51: time_steps = th.tensor([i for i in range(T)])
FullTimeSteps(T) == [i \in 1..T |-> i - 1]

\* respaced_timesteps(T, respaced_T): respaced_T indices spread evenly over
\* 0..T-1, starting at 0
RespacedTimesteps(T, Tp) == [i \in 1..Tp |-> ((i - 1) * T) \div Tp]

\* lines 50-54, for respaced_T <= T
TimeSteps(T, Tp) ==
    IF Tp = T THEN FullTimeSteps(T) ELSE RespacedTimesteps(T, Tp)

\* lines 47-59: the respaced schedule, or the ValueError for respaced_T > T
FS_Schedule ==
    /\ prog = "find_stepsize" /\ pc = "loaded"
    /\ IF args.respaced_num_diff_steps <= args.num_diff_steps
       THEN /\ time_steps' = TimeSteps(args.num_diff_steps,
                                       args.respaced_num_diff_steps)
            /\ device' = Append(device, "diff_sampler")
            /\ pc' = "scheduled"
            /\ err' = err
       ELSE /\ time_steps' = time_steps
            /\ device' = device
            /\ pc' = "error"
            /\ err' = "ValueError"
    /\ UNCHANGED <<hmc, hmc2, clf, prog, args, cal, cal2, file, writes, config, cfg, store, query, loaded>>

\* lines 61-109: the correction sampler (HMC or LA: either way its statistic
\* is an input of the search), the wrapper and the guided sampler
FS_BuildSampler ==
    /\ prog = "find_stepsize" /\ pc = "scheduled"
    /\ cal' = NewCal(IF UseStacking(args) THEN "stacking" ELSE "plain",
                     IF UseStacking(args)
                     THEN NumSubBatches(args.num_samples, args.batch_size)
                     ELSE 1,
                     args.respaced_num_diff_steps,
                     WrapperBounds(args), WrapperMaxIter(args))
    /\ device' = Append(device, "build_sampler")
    /\ pc' = "sampling"
    /\ UNCHANGED <<aux, prog, err, args, cal2, file, writes, config, cfg, store, query, loaded>>

\* guided_sampler.sample / sample_stacking: a reverse loop starts (the only
\* one, or the next sub-batch's)
FS_StartLoop ==
    /\ prog = "find_stepsize" /\ pc = "sampling"
    /\ cal.phase \in {"idle", "loop_done"}
    /\ cal.b < cal.nsub
    /\ cal' = StartLoop(cal)
    /\ device' = IF cal.phase = "idle" THEN Append(device, "sample") ELSE device
    /\ UNCHANGED <<aux, prog, pc, err, args, cal2, file, writes, config, cfg, store, query, loaded>>

FS_ReverseStep ==
    /\ prog = "find_stepsize" /\ pc = "sampling"
    /\ cal.phase = "reverse" /\ cal.t >= 1
    /\ cal' = ReverseStep(cal)
    /\ UNCHANGED <<aux, prog, pc, err, args, device, cal2, file, writes, config, cfg, store, query, loaded>>

FS_SearchIteration ==
    /\ prog = "find_stepsize" /\ pc = "sampling"
    /\ cal.phase = "search"
    /\ \E a \in Rates : cal' = SearchIteration(cal, a)
    /\ UNCHANGED <<aux, prog, pc, err, args, device, cal2, file, writes, config, cfg, store, query, loaded>>

\* the sample call returns after the last reverse loop
FS_SampleReturns ==
    /\ prog = "find_stepsize" /\ pc = "sampling"
    /\ cal.phase = "loop_done" /\ cal.b = cal.nsub
    /\ cal' = [cal EXCEPT !.phase = "returned"]
    /\ pc' = "sampled"
    /\ UNCHANGED <<aux, prog, err, args, device, cal2, file, writes, config, cfg, store, query, loaded>>

\* (mutant) the table is dumped after every reverse loop
FS_WriteFileEachLoop ==
    /\ prog = "find_stepsize" /\ pc \in {"sampling", "sampled"}
    /\ cal.phase \in {"loop_done", "returned"}
    /\ file' = [exists |-> TRUE, content |-> cal.res]
    /\ writes' = writes + 1
    /\ pc' = IF pc = "sampled" THEN "done" ELSE pc
    /\ UNCHANGED <<aux, prog, err, args, device, cal, cal2, config, cfg, store, query, loaded>>

\* lines 112-113: pickle.dump(sampler.res, open("adaptive_step_sizes.p", "wb"))
FS_WriteFile ==
    /\ prog = "find_stepsize" /\ pc = "sampled"
    /\ file' = [exists |-> TRUE, content |-> cal.res]
    /\ writes' = writes + 1
    /\ pc' = "done"
    /\ UNCHANGED <<aux, prog, err, args, device, cal, cal2, config, cfg, store, query, loaded>>

\* the process is killed (there is no handler: nothing else happens)
FS_Interrupt ==
    /\ prog = "find_stepsize"
    /\ pc \in {"start", "loaded", "scheduled", "sampling", "sampled"}
    /\ pc' = "interrupted"
    /\ UNCHANGED <<aux, prog, err, args, device, cal, cal2, file, writes, config, cfg, store, query, loaded>>

FS_Step ==
    \/ FS_LoadModels
    \/ FS_Schedule
    \/ FS_BuildSampler
    \/ FS_StartLoop
    \/ FS_ReverseStep
    \/ FS_SearchIteration
    \/ FS_SampleReturns
    \/ FS_WriteFile

NoFile == [exists |-> FALSE, content |-> EmptyRes(0)]
NoStore == [p \in {} |-> EmptyRes(0)]
NoQuery == <<"none", "none", "none">>
NoLoaded == [status |-> "none", message |-> NoQuery, returned |-> FALSE,
             mapping |-> [t \in {} |-> 0]]


-----------------------------------------------------------------------------
(* exp/utils.py: SimulationConfig *)

\* the mcmc_stepsizes entry of a configuration file: null, or a dict whose
\* keys may be missing ("missing") or hold a value of the named kind
StepsizeDicts ==
    [isNone : {FALSE},
     load : {"missing", "True", "False", "str"},
     bounds : {"missing", "None", "set"},
     factor : {"missing", "num", "str"},
     exponent : {"missing", "num", "str"},
     beta_schedule : {"missing", "None", "set"}]

NoneDict ==
    [isNone |-> TRUE, load |-> "missing", bounds |-> "missing",
     factor |-> "missing", exponent |-> "missing", beta_schedule |-> "missing"]

\* mcmc_lower_t: Optional[int]; NoLowerT stands for None
NoLowerT == 0 - 1
LowerTs == {NoLowerT, 0}

Configs ==
    [mcmc_method : {"None", "hmc", "la"},
     mcmc_stepsizes : StepsizeDicts \cup {NoneDict},
     n_trapets : {"None", "int"},
     mcmc_lower_t : LowerTs,
     num_respaced_diff_steps : {MaxSteps},
     num_samples : 1..MaxSamples,
     batch_size : 1..MaxSamples]

NoConfig ==
    [mcmc_method |-> "None", mcmc_stepsizes |-> NoneDict, n_trapets |-> "None",
     mcmc_lower_t |-> NoLowerT, num_respaced_diff_steps |-> 0,
     num_samples |-> 0, batch_size |-> 1]

\* config.num_samples % config.batch_size == 0
Multiple(c) == c.num_samples % c.batch_size = 0

\* lines 74-75 of _validate
ValidateLa(c) ==
    IF c.mcmc_method = "la" /\ c.n_trapets # "int" THEN "AssertionError" ELSE "ok"

\* lines 66-73 of _validate: the step sizes are given by factor * beta ** exponent
ValidateParams(c) ==
    LET d == c.mcmc_stepsizes
    IN  IF d.factor = "missing" THEN "KeyError"
        ELSE IF d.factor # "num" THEN "AssertionError"
        ELSE IF d.exponent = "missing" THEN "KeyError"
        ELSE IF d.exponent # "num" THEN "AssertionError"
        ELSE IF d.beta_schedule = "missing" THEN "KeyError"
        ELSE IF d.beta_schedule = "None" THEN "AssertionError"
        ELSE ValidateLa(c)

\* (mutant) the bounds of a loaded table are not checked
ValidateLoadNoBounds(c) == ValidateLa(c)

\* lines 64-65 of _validate: the step sizes are loaded, the bounds name the table
ValidateLoad(c) ==
    LET d == c.mcmc_stepsizes
    IN  IF d.bounds = "missing" THEN "KeyError"
        ELSE IF d.bounds = "None" THEN "AssertionError"
        ELSE ValidateLa(c)

\* SimulationConfig._validate: "ok", or the exception it raises
Validate(c) ==
    IF c.mcmc_method = "None" THEN "ok"
    ELSE IF c.mcmc_stepsizes.isNone THEN "AssertionError"
    ELSE IF c.mcmc_stepsizes.load = "missing" THEN "KeyError"
    ELSE IF c.mcmc_stepsizes.load \notin {"True", "False"} THEN "AssertionError"
    ELSE IF c.mcmc_stepsizes.load = "True" THEN ValidateLoad(c)
    ELSE ValidateParams(c)

-----------------------------------------------------------------------------
(* exp/simulation.py *)

\* line 28: config = SimulationConfig.from_json(args.config)
SIM_FromJson ==
    /\ prog = "simulation" /\ pc = "start"
    /\ IF Validate(config) = "ok"
       THEN /\ cfg' = [returned |-> TRUE, value |-> config]
            /\ pc' = "validated"
            /\ err' = err
       ELSE /\ cfg' = cfg
            /\ pc' = "error"
            /\ err' = Validate(config)
    /\ UNCHANGED <<aux, prog, args, device, cal, cal2, file, writes, config, store, query, loaded>>

\* line 29: assert config.num_samples % config.batch_size == 0
SIM_AssertMultiple ==
    /\ prog = "simulation" /\ pc = "validated"
    /\ IF Multiple(config)
       THEN pc' = "checked" /\ err' = err
       ELSE pc' = "error" /\ err' = "AssertionError"
    /\ UNCHANGED <<aux, prog, args, device, cal, cal2, file, writes, config, cfg, store, query, loaded>>

\* line 31: setup_results_dir(config) is called without the job_id the
\* function requires, which has no default: the call raises TypeError and
\* nothing below line 31 runs
SIM_SetupResultsDir ==
    /\ prog = "simulation" /\ pc = "checked"
    /\ pc' = "error"
    /\ err' = "TypeError"
    /\ UNCHANGED <<aux, prog, args, device, cal, cal2, file, writes, config, cfg, store, query, loaded>>

SIM_Step ==
    \/ SIM_FromJson
    \/ SIM_AssertMultiple
    \/ SIM_SetupResultsDir

-----------------------------------------------------------------------------
(* exp/utils.py: get_step_size *)

DatasetNames == {"mnist", "imagenet"}
McmcMethods == {"hmc", "la"}
AcceptBounds == {"0.6_0.8"}

\* step_size_dir / f"{dataset_name}_{mcmc_method}_{mcmc_accept_bounds}.p"
PathOf(q) == <<"step_sizes", q[1], q[2], q[3], ".p">>

Queries == DatasetNames \X McmcMethods \X AcceptBounds

Slot(sizes) ==
    [step_sizes |-> sizes, accepts |-> <<>>, n_iter |-> <<>>, converged |-> <<>>]

\* tables as a calibration run pickles them
PersistedTables ==
    {[t \in 0..2 |-> IF t = 2 THEN Slot(<<>>) ELSE Slot(<<t + 1, t + 2>>)],
     [t \in 0..1 |-> IF t = 1 THEN Slot(<<>>) ELSE Slot(<<3>>)]}

Stores ==
    UNION {[S -> PersistedTables] : S \in SUBSET {PathOf(q) : q \in Queries}}

\* (mutant) a timestep without a step size is given its default one
ExtractAll(tbl) ==
    [t \in DOMAIN tbl |->
        IF tbl[t].step_sizes = <<>> THEN InitialStep(t) ELSE Last(tbl[t].step_sizes)]

\* (mutant) the first step size recorded is taken, not the last
ExtractFirst(tbl) ==
    [t \in {u \in DOMAIN tbl : tbl[u].step_sizes # <<>>} |->
        tbl[t].step_sizes[1]]

\* line 93: the last step size of every timestep that has one
Extract(tbl) ==
    [t \in {u \in DOMAIN tbl : tbl[u].step_sizes # <<>>} |->
        Last(tbl[t].step_sizes)]

\* (mutant) a missing file gives an empty mapping
GetStepSizeFallback(st, q) ==
    IF PathOf(q) \notin DOMAIN st
    THEN [status |-> "ok", message |-> <<>>,
          returned |-> TRUE, mapping |-> [t \in {} |-> 0]]
    ELSE [status |-> "ok", message |-> <<>>,
          returned |-> TRUE, mapping |-> Extract(st[PathOf(q)])]

\* get_step_size(step_size_dir, dataset_name, mcmc_method, mcmc_accept_bounds)
GetStepSize(st, q) ==
    IF PathOf(q) \notin DOMAIN st
    THEN [status |-> "AssertionError", message |-> PathOf(q),
          returned |-> FALSE, mapping |-> [t \in {} |-> 0]]
    ELSE [status |-> "ok", message |-> <<>>,
          returned |-> TRUE, mapping |-> Extract(st[PathOf(q)])]

GS_Call ==
    /\ prog = "get_step_size" /\ pc = "start"
    /\ loaded' = GetStepSize(store, query)
    /\ pc' = IF loaded'.returned THEN "done" ELSE "error"
    /\ err' = IF loaded'.returned THEN err ELSE loaded'.status
    /\ UNCHANGED <<aux, prog, args, device, cal, cal2, file, writes, config, cfg, store, query>>

-----------------------------------------------------------------------------
(* The Hamiltonian correction sampler: AnnealedHMCScoreSampler(mcmc_steps,   *)
(* step_sizes, 0.9, betas, 3, None), modelled from its written design.  One  *)
(* call makes n_steps proposals for a batch.  A sample is identified by the  *)
(* total energy of the point it stands at (an integer level); a proposal is  *)
(* the energy evaluated at the end of its leapfrog trajectory, which can be  *)
(* a level or one of the non-finite values; the coin is the uniform draw of  *)
(* the Metropolis test ("low": the draw is below exp(H_old - H_new)).        *)

\* largest finite energy level
MaxEnergy == 1
\* largest number of correction steps per call (--n_mcmc_steps, mcmc_steps)
MaxMcmcSteps == 2

Samples == {"s1", "s2"}
FiniteEnergies == 0..MaxEnergy
NegInf == 0 - 1
PosInf == MaxEnergy + 1
NaN == MaxEnergy + 2
NonFinite == {NegInf, PosInf, NaN}
Proposals == FiniteEnergies \cup NonFinite
Coins == {"low", "high"}

IsFinite(e) == e \in FiniteEnergies

\* (mutant) the bare Metropolis test u < exp(H_old - H_new): false for NaN
\* and for +inf, true for -inf
AcceptNaive(e_old, e_new, u) ==
    /\ e_new # NaN /\ e_new # PosInf
    /\ (e_new <= e_old \/ u = "low")

\* the Metropolis criterion on the total energy before and after, with a
\* proposal of non-finite energy rejected whatever the draw
Accept(e_old, e_new, u) ==
    /\ IsFinite(e_new)
    /\ (e_new <= e_old \/ u = "low")

\* (mutant) one decision for the batch: a proposal is taken only if every
\* sample's proposal passes
DecisionsShared(x, props, us) ==
    [i \in Samples |-> \A j \in Samples : Accept(x[j], props[j], us[j])]

\* the accept/reject decision of every sample of the batch
Decisions(x, props, us) ==
    [i \in Samples |-> Accept(x[i], props[i], us[i])]

NoLast == [prop |-> 0, prev |-> 0, accepted |-> FALSE]

NewHmc(n_steps, x, watch) ==
    [n_steps |-> n_steps, k |-> 0, x |-> x, watch |-> watch,
     last |-> [i \in Samples |-> NoLast],
     iters |-> [i \in Samples |-> 0]]

NoHmc == NewHmc(0, [i \in Samples |-> 0], "s1")

\* one of the n_steps proposals of a call: every sample of the batch gets a
\* proposal and is moved to it or left where it is
HmcStep(h, props, us) ==
    LET d == Decisions(h.x, props, us)
    IN  [h EXCEPT !.k = h.k + 1,
                  !.x = [i \in Samples |-> IF d[i] THEN props[i] ELSE h.x[i]],
                  !.last = [i \in Samples |->
                               [prop |-> props[i], prev |-> h.x[i],
                                accepted |-> d[i]]],
                  !.iters = [i \in Samples |-> h.iters[i] + 1]]

\* two calls on the same batch with the same n_steps; the second call's
\* proposals and draws agree with the first's for the watched sample and
\* are anything for the other samples
InitHmc ==
    /\ prog = "hmc"
    /\ \E n \in 1..MaxMcmcSteps, x \in [Samples -> FiniteEnergies], w \in Samples :
          /\ hmc = NewHmc(n, x, w)
          /\ hmc2 = NewHmc(n, x, w)

\* the batch's proposals (draws): v for the watched sample, f for the others
WithWatched(w, v, f) == [i \in Samples |-> IF i = w THEN v ELSE f[i]]

HMC_Proposal ==
    /\ prog = "hmc" /\ pc = "start"
    /\ hmc.k < hmc.n_steps
    /\ \E pw \in Proposals, uw \in Coins,
          p1, p2 \in [Samples \ {hmc.watch} -> Proposals],
          u1, u2 \in [Samples \ {hmc.watch} -> Coins] :
          /\ hmc' = HmcStep(hmc, WithWatched(hmc.watch, pw, p1),
                                  WithWatched(hmc.watch, uw, u1))
          /\ hmc2' = HmcStep(hmc2, WithWatched(hmc.watch, pw, p2),
                                    WithWatched(hmc.watch, uw, u2))
    /\ UNCHANGED <<prog, pc, err, args, device, cal, cal2, file, writes,
                   config, cfg, store, query, loaded, time_steps, clf>>

\* the call returns the batch and its statistics after n_steps proposals
HMC_Return ==
    /\ prog = "hmc" /\ pc = "start"
    /\ hmc.k = hmc.n_steps
    /\ pc' = "done"
    /\ UNCHANGED <<aux, prog, err, args, device, cal, cal2, file, writes,
                   config, cfg, store, query, loaded>>

HMC_Step ==
    \/ HMC_Proposal
    \/ HMC_Return

-----------------------------------------------------------------------------
(* src/model/trainers/classifier.py: DiffusionClassifier.  The training      *)
(* framework calls the four callbacks; the model lets it call them in any    *)
(* order.  A loss is an integer in 0..MaxLoss, an accuracy 0 or 1.           *)

\* largest number of training (validation) steps between two epoch ends
MaxBatches == 2
\* largest number of training epochs
MaxEpochs == 2
\* largest loss of one batch
MaxLoss == 1

Losses == 0..MaxLoss
Accs == {0, 1}

\* self.device: where the framework has put the module and its batches
Devices == {"cpu", "cuda"}

\* A random-number generator is the seed it was last seeded with and the
\* number of draws made since; the process has one generator for the CPU
\* and one for the GPU.  AmbientSeed is what the generators hold before the
\* module seeds anything.
AmbientSeed == 0 - 1
NewRng(seed) == [seed |-> seed, pos |-> 0]

\* the value a draw from generator g gives, and the generator after it
Draw(g) == <<g.seed, g.pos>>
Advance(g) == [g EXCEPT !.pos = g.pos + 1]

\* the generator a draw on the module's device (th.randint(..., device=
\* self.device), th.randn_like(x)) takes its numbers from
DeviceRng(c) == IF c.device = "cuda" THEN c.cuda_rng ELSE c.cpu_rng

\* the module after two draws on its device
TwoDraws(c) ==
    IF c.device = "cuda"
    THEN [c EXCEPT !.cuda_rng = Advance(Advance(c.cuda_rng))]
    ELSE [c EXCEPT !.cpu_rng = Advance(Advance(c.cpu_rng))]

\* lines 72-80 of validation_step: th.get_rng_state() reads the CPU
\* generator, th.manual_seed seeds the generators of all devices, the two
\* draws are made on the module's device, th.set_rng_state writes the CPU
\* generator back
SeededDraws(c) ==
    LET saved  == c.cpu_rng
        seeded == [c EXCEPT !.cpu_rng = NewRng(c.i_batch_val),
                            !.cuda_rng = NewRng(c.i_batch_val)]
        drawn  == [TwoDraws(seeded) EXCEPT
                      !.val_ts = Draw(DeviceRng(seeded)),
                      !.val_noise = Draw(Advance(DeviceRng(seeded)))]
    IN  [drawn EXCEPT !.cpu_rng = saved]

\* __init__, lines 35-41; since_train / since_val count the calls made
\* since the last epoch end, last names the callback called last, val_ts
\* and val_noise are the draws of the last validation step
NewClf ==
    [train_loss |-> 0, val_loss |-> 0, val_acc |-> 0,
     i_batch_train |-> 0, i_batch_val |-> 0, i_epoch |-> 0,
     since_train |-> 0, since_val |-> 0, last |-> "__init__",
     device |-> "cpu",
     cpu_rng |-> NewRng(AmbientSeed), cuda_rng |-> NewRng(AmbientSeed),
     val_ts |-> <<AmbientSeed, 0>>, val_noise |-> <<AmbientSeed, 0>>]

NoClf == [NewClf EXCEPT !.last = "none"]

\* lines 43-56: ts and noise are drawn on the module's device
CLF_training_step ==
    /\ prog = "classifier" /\ pc = "start"
    /\ clf.i_batch_train < MaxBatches
    /\ \E loss \in Losses :
          clf' = [TwoDraws(clf) EXCEPT !.train_loss = clf.train_loss + loss,
                             !.i_batch_train = clf.i_batch_train + 1,
                             !.since_train = clf.since_train + 1,
                             !.last = "training_step"]
    /\ UNCHANGED <<prog, pc, err, args, device, cal, cal2, file, writes,
                   config, cfg, store, query, loaded, time_steps, hmc, hmc2>>

\* lines 58-62: the print divides by i_batch_train before anything is reset
CLF_on_train_epoch_end ==
    /\ prog = "classifier" /\ pc = "start"
    /\ clf.i_epoch < MaxEpochs
    /\ IF clf.i_batch_train = 0
       THEN /\ clf' = [clf EXCEPT !.last = "on_train_epoch_end"]
            /\ pc' = "error"
            /\ err' = "ZeroDivisionError"
       ELSE /\ clf' = [clf EXCEPT !.train_loss = 0,
                                  !.i_batch_train = 0,
                                  !.i_epoch = clf.i_epoch + 1,
                                  !.since_train = 0,
                                  !.last = "on_train_epoch_end"]
            /\ pc' = pc
            /\ err' = err
    /\ UNCHANGED <<prog, args, device, cal, cal2, file, writes,
                   config, cfg, store, query, loaded, time_steps, hmc, hmc2>>

\* lines 69-92
CLF_validation_step ==
    /\ prog = "classifier" /\ pc = "start"
    /\ clf.i_batch_val < MaxBatches
    /\ \E loss \in Losses, acc \in Accs :
          clf' = [SeededDraws(clf) EXCEPT !.val_loss = clf.val_loss + loss,
                             !.val_acc = clf.val_acc + acc,
                             !.i_batch_val = clf.i_batch_val + 1,
                             !.since_val = clf.since_val + 1,
                             !.last = "validation_step"]
    /\ UNCHANGED <<prog, pc, err, args, device, cal, cal2, file, writes,
                   config, cfg, store, query, loaded, time_steps, hmc, hmc2>>

\* lines 94-100: the f-string divides by i_batch_val before anything is reset
CLF_on_validation_epoch_end ==
    /\ prog = "classifier" /\ pc = "start"
    /\ IF clf.i_batch_val = 0
       THEN /\ clf' = [clf EXCEPT !.last = "on_validation_epoch_end"]
            /\ pc' = "error"
            /\ err' = "ZeroDivisionError"
       ELSE /\ clf' = [clf EXCEPT !.val_loss = 0,
                                  !.val_acc = 0,
                                  !.i_batch_val = 0,
                                  !.since_val = 0,
                                  !.last = "on_validation_epoch_end"]
            /\ pc' = pc
            /\ err' = err
    /\ UNCHANGED <<prog, args, device, cal, cal2, file, writes,
                   config, cfg, store, query, loaded, time_steps, hmc, hmc2>>

CLF_Step ==
    \/ CLF_training_step
    \/ CLF_on_train_epoch_end
    \/ CLF_validation_step
    \/ CLF_on_validation_epoch_end

-----------------------------------------------------------------------------
(* The processes *)

NoCfg == [returned |-> FALSE, value |-> NoConfig]

InitCommon ==
    /\ pc = "start" /\ err = "none"
    /\ device = <<>>
    /\ cal = NoCal /\ cal2 = NoCal
    /\ file = NoFile /\ writes = 0
    /\ cfg = NoCfg /\ loaded = NoLoaded
    /\ time_steps = <<>>

\* the script never builds the component
Unused == hmc = NoHmc /\ hmc2 = NoHmc /\ clf = NoClf

InitFindStepsize ==
    /\ prog = "find_stepsize"
    /\ args \in FsArgs
    /\ config = NoConfig /\ store = NoStore /\ query = NoQuery
    /\ Unused

InitSimulation ==
    /\ prog = "simulation"
    /\ config \in Configs
    /\ args = NoArgs /\ store = NoStore /\ query = NoQuery
    /\ Unused

InitGetStepSize ==
    /\ prog = "get_step_size"
    /\ store \in Stores
    /\ query \in Queries
    /\ args = NoArgs /\ config = NoConfig
    /\ Unused

InitCorrection ==
    /\ InitCommon
    /\ InitHmc
    /\ clf = NoClf
    /\ args = NoArgs /\ config = NoConfig /\ store = NoStore /\ query = NoQuery

InitClassifier ==
    /\ InitCommon
    /\ prog = "classifier"
    /\ \E d \in Devices : clf = [NewClf EXCEPT !.device = d]
    /\ hmc = NoHmc /\ hmc2 = NoHmc
    /\ args = NoArgs /\ config = NoConfig /\ store = NoStore /\ query = NoQuery

Init ==
    /\ InitCommon
    /\ \/ InitFindStepsize
       \/ InitSimulation
       \/ InitGetStepSize

Next ==
    \/ FS_Step
    \/ FS_Interrupt
    \/ SIM_Step
    \/ GS_Call

Spec == Init /\ [][Next]_vars

\* find_stepsize.py up to its schedule, over a wider range of step counts
ScheduleArgs ==
    [diff_model : {"mnist", "256x256_diffusion"},
     num_diff_steps : 1..MaxFullSteps,
     respaced_num_diff_steps : 1..MaxFullSteps,
     batch_size : {1},
     num_samples : {1},
     accept_rate_bound : {<<1, 1>>},
     max_iter : {1}]

InitSchedule ==
    /\ InitCommon
    /\ prog = "find_stepsize"
    /\ args \in ScheduleArgs
    /\ config = NoConfig /\ store = NoStore /\ query = NoQuery
    /\ Unused

NextSchedule ==
    \/ FS_LoadModels
    \/ FS_Schedule

SpecSchedule == InitSchedule /\ [][NextSchedule]_vars

\* one call of the Hamiltonian correction sampler, run twice side by side
SpecCorrection == InitCorrection /\ [][HMC_Step]_vars

\* a DiffusionClassifier under the training framework
SpecClassifier == InitClassifier /\ [][CLF_Step]_vars

Terminated == pc \in {"done", "error", "interrupted"}

\* the interpreter runs a started script on until it returns or raises
FairSpec == Spec /\ WF_vars(FS_Step \/ SIM_Step \/ GS_Call)


-----------------------------------------------------------------------------
(* The two calibrators side by side: the non-stacking calibrator (cal) and  *)
(* the batch-stacking calibrator (cal2) are given the same schedule, band,  *)
(* max_iter, data and seed.  Same data and seed mean: whenever the two      *)
(* have done the same things so far and run the correction sampler at the   *)
(* same timestep with the same step size, they observe the same statistic.  *)

CompareArgs ==
    {a \in FsArgs : /\ a.diff_model = "mnist"
                    /\ a.num_diff_steps = MaxSteps
                    /\ a.batch_size = a.num_samples}

\* one step of a calibrating sampler's sample call; a is the statistic the
\* correction sampler reports if this step runs it
CalStep(c, a) ==
    IF c.phase \in {"idle", "loop_done"} /\ c.b < c.nsub THEN StartLoop(c)
    ELSE IF c.phase = "reverse" THEN ReverseStep(c)
    ELSE IF c.phase = "search" THEN SearchIteration(c, a)
    ELSE [c EXCEPT !.phase = "returned"]

SameCall(c1, c2) ==
    /\ c1.phase = "search" /\ c2.phase = "search"
    /\ c1.b = c2.b /\ c1.t = c2.t
    /\ c1.level = c2.level
    /\ c1.obs = c2.obs
    /\ c1.res = c2.res

InitCompare ==
    /\ prog = "compare" /\ pc = "sampling" /\ err = "none"
    /\ args \in CompareArgs
    /\ device = <<>>
    /\ cal = NewCal("plain", 1, args.respaced_num_diff_steps,
                    WrapperBounds(args), WrapperMaxIter(args))
    /\ cal2 = NewCal("stacking", NumSubBatches(args.num_samples, args.batch_size),
                     args.respaced_num_diff_steps,
                     WrapperBounds(args), WrapperMaxIter(args))
    /\ file = NoFile /\ writes = 0
    /\ cfg = NoCfg /\ loaded = NoLoaded
    /\ config = NoConfig /\ store = NoStore /\ query = NoQuery
    /\ time_steps = <<>>
    /\ Unused

CMP_Step ==
    /\ prog = "compare" /\ pc = "sampling"
    /\ ~(cal.phase = "returned" /\ cal2.phase = "returned")
    /\ \E a1, a2 \in Rates :
          /\ SameCall(cal, cal2) => a1 = a2
          /\ cal' = CalStep(cal, a1)
          /\ cal2' = CalStep(cal2, a2)
    /\ UNCHANGED <<aux, prog, pc, err, args, device, file, writes, config, cfg, store, query, loaded>>

CMP_Finish ==
    /\ prog = "compare" /\ pc = "sampling"
    /\ cal.phase = "returned" /\ cal2.phase = "returned"
    /\ pc' = "done"
    /\ UNCHANGED <<aux, prog, err, args, device, cal, cal2, file, writes, config, cfg, store, query, loaded>>

NextCompare ==
    \/ CMP_Step
    \/ CMP_Finish

SpecCompare == InitCompare /\ [][NextCompare]_vars

-----------------------------------------------------------------------------
(* Properties *)

Calibrating == prog = "find_stepsize" /\ pc \in {"sampling", "sampled", "done"}

\* the band given on the command line
ConfiguredInBand(a) ==
    args.accept_rate_bound[1] <= a /\ a <= args.accept_rate_bound[2]

Populated(tbl) == {t \in DOMAIN tbl : tbl[t].step_sizes # <<>>}

IsPrefix(s1, s2) ==
    /\ Len(s1) <= Len(s2)
    /\ \A i \in 1..Len(s1) : s1[i] = s2[i]

\* C1: in every state of a calibration run, every recorded step size either
\* has a recorded acceptance statistic inside the configured band or is
\* flagged as not converged, never both and never neither; and the pair just
\* recorded is the step size the correction sampler last ran at together
\* with the statistic it reported there.
C1_InBandOrFlagged ==
    Calibrating =>
        /\ \A t \in DOMAIN cal.res :
              \A k \in 1..Len(cal.res[t].step_sizes) :
                  ConfiguredInBand(cal.res[t].accepts[k]) <=> cal.res[t].converged[k]
        /\ (cal.phase \in {"reverse", "loop_done"} /\ cal.obs # <<>>) =>
              /\ Last(cal.res[cal.t].step_sizes) = Last(cal.obs).level
              /\ Last(cal.res[cal.t].accepts) = Last(cal.obs).rate

\* a finished run holding both outcomes: one timestep resolved in band, one
\* flagged as not converged with an out-of-band statistic
C1_Witness ==
    /\ prog = "find_stepsize" /\ pc = "done"
    /\ \E t1, t2 \in DOMAIN cal.res :
          /\ cal.res[t1].step_sizes # <<>> /\ cal.res[t2].step_sizes # <<>>
          /\ Last(cal.res[t1].converged)
          /\ ConfiguredInBand(Last(cal.res[t1].accepts))
          /\ ~Last(cal.res[t2].converged)
          /\ ~ConfiguredInBand(Last(cal.res[t2].accepts))

C2_State ==
    (prog = "find_stepsize" /\ pc = "sampling") =>
        /\ cal.iter <= args.max_iter
        /\ Len(cal.obs) = cal.iter
        /\ \A i \in 1..(Len(cal.obs) - 1) : ~ConfiguredInBand(cal.obs[i].rate)
        /\ cal.phase = "search" =>
              /\ cal.iter < args.max_iter
              /\ \A i \in 1..Len(cal.obs) : ~ConfiguredInBand(cal.obs[i].rate)
        /\ \A t \in DOMAIN cal.res :
              \A k \in 1..Len(cal.res[t].n_iter) :
                  cal.res[t].n_iter[k] <= args.max_iter

C2_Exhausted ==
    (/\ prog = "find_stepsize" /\ pc = "sampling" /\ cal.phase = "search"
     /\ cal.iter + 1 = args.max_iter
     /\ cal'.ncalls = cal.ncalls + 1
     /\ ~ConfiguredInBand(Last(cal'.obs).rate))
    => /\ pc' = "sampling" /\ err' = "none"
       /\ cal'.t = cal.t - 1
       /\ cal'.phase \in {"reverse", "loop_done"}
       /\ Last(cal'.res[cal'.t].step_sizes) = cal.level
       /\ ~Last(cal'.res[cal'.t].converged)

\* C2: the search of a timestep runs the correction sampler at most max_iter
\* times; an in-band statistic is always the last of its search; a search
\* that uses up max_iter without an in-band statistic records the candidate
\* it last ran and the reverse loop goes on with the next timestep, without
\* an error; and every run ends (done, error or killed).
C2_BoundedSearchTerminates ==
    /\ []C2_State
    /\ [][C2_Exhausted]_vars
    /\ <>Terminated

\* a finished run in which a search of at least two iterations ran out of
\* max_iter and a later timestep was still calibrated
C2_Witness ==
    /\ prog = "find_stepsize" /\ pc = "done" /\ args.max_iter >= 2
    /\ \E t \in 1..cal.Tp :
          /\ cal.res[t].step_sizes # <<>>
          /\ ~Last(cal.res[t].converged)
          /\ Last(cal.res[t].n_iter) = args.max_iter
          /\ cal.res[t - 1].step_sizes # <<>>

Descending(Tp, n) == [i \in 1..n |-> Tp - i + 1]

\* C4: during a sample call the timesteps the loop has stood at are
\* Tp, Tp-1, ... down to the current one, each once; the k-th reverse step
\* consumed the batch standing at timestep Tp-k+1, which is the initial noise
\* for the first step and the finished (corrected) output of the preceding
\* step for every other; a reverse step can start only on the batch of its
\* own timestep; and the call ends at timestep 0 holding the batch of
\* timestep 0.
C4_SequentialDescent ==
    (prog = "find_stepsize" /\ pc \in {"sampling", "sampled", "done"}
       /\ cal.phase # "idle") =>
        /\ cal.visited = Descending(cal.Tp, cal.Tp - cal.t + 1)
        /\ Len(cal.consumed) = cal.Tp - cal.t + (IF cal.phase = "search" THEN 1 ELSE 0)
        /\ \A k \in 1..Len(cal.consumed) :
              /\ cal.consumed[k].at = cal.Tp - k + 1
              /\ cal.consumed[k].by = (IF k = 1 THEN "noise" ELSE "mcmc")
        /\ cal.phase = "reverse" => cal.x.at = cal.t /\ cal.t >= 1
        /\ cal.phase \in {"loop_done", "returned"} =>
              cal.t = 0 /\ cal.x = [at |-> 0, by |-> "mcmc"]

\* a sample call over three timesteps has returned
C4_Witness ==
    /\ prog = "find_stepsize" /\ cal.phase = "returned"
    /\ cal.visited = <<2, 1, 0>>

SuppliesBounds(c) ==
    ~c.mcmc_stepsizes.isNone /\ c.mcmc_stepsizes.bounds = "set"

SuppliesSource(c) ==
    /\ ~c.mcmc_stepsizes.isNone
    /\ c.mcmc_stepsizes.factor = "num"
    /\ c.mcmc_stepsizes.exponent = "num"
    /\ c.mcmc_stepsizes.beta_schedule = "set"

\* C6: once from_json has run, a configuration with mcmc_method set that
\* gives neither bounds nor the parameters of the step-size formula has been
\* rejected (the run ended in an error and no configuration was returned),
\* and a configuration with mcmc_method unset has been returned whatever its
\* step-size fields hold.
C6_ValidationRejects ==
    (prog = "simulation" /\ pc # "start") =>
        /\ (config.mcmc_method # "None"
              /\ ~SuppliesBounds(config) /\ ~SuppliesSource(config))
             => (pc = "error" /\ ~cfg.returned /\ err \in {"AssertionError", "KeyError"})
        /\ config.mcmc_method = "None" => (cfg.returned /\ cfg.value = config)

C6_Witness ==
    /\ prog = "simulation" /\ pc = "error" /\ ~cfg.returned
    /\ config.mcmc_method = "hmc"
    /\ ~config.mcmc_stepsizes.isNone
    /\ config.mcmc_stepsizes.load = "True"
    /\ config.mcmc_stepsizes.bounds = "None"
    /\ config.mcmc_stepsizes.factor = "missing"

\* C7: a get_step_size call for a path that is not in the step-size
\* directory ends in the assertion error whose message holds that path, and
\* hands no mapping back.
C7_MissingTableFails ==
    (prog = "get_step_size" /\ pc # "start" /\ PathOf(query) \notin DOMAIN store) =>
        /\ pc = "error" /\ err = "AssertionError"
        /\ loaded.message = PathOf(query)
        /\ ~loaded.returned
        /\ DOMAIN loaded.mapping = {}

C7_Witness ==
    /\ prog = "get_step_size" /\ pc = "error"
    /\ PathOf(query) \notin DOMAIN store
    /\ DOMAIN store # {}

\* the configuration errors of the two scripts
ConfigError ==
    \/ prog = "find_stepsize"
         /\ args.respaced_num_diff_steps > args.num_diff_steps
    \/ prog = "simulation"
         /\ (Validate(config) # "ok" \/ ~Multiple(config))

\* C8: a run started with a configuration error that has ended in an error
\* has done no device computation.
C8_FailFast ==
    (ConfigError /\ pc = "error") => device = <<>>

C10_State ==
    /\ writes <= 1
    /\ file.exists <=> writes = 1
    /\ writes = 1 =>
          /\ prog = "find_stepsize" /\ pc = "done"
          /\ cal.phase = "returned" /\ cal.b = cal.nsub /\ cal.t = 0
          /\ file.content = cal.res
    /\ (prog = "find_stepsize" /\ pc = "done") => writes = 1
    /\ pc = "interrupted" => ~file.exists

C10_ReadOnly ==
    prog \in {"simulation", "get_step_size"} =>
        (file' = file /\ store' = store /\ writes' = writes)

\* C10: a calibration run writes its step-size file once, after the last
\* reverse loop has returned, with the final table; a run killed before that
\* has written nothing; and simulation.py and get_step_size never change a
\* step-size file.
C10_WrittenOnceAtEnd ==
    /\ []C10_State
    /\ [][C10_ReadOnly]_vars

\* a stacking run has finished its last sub-batch and written the file
C10_Witness ==
    /\ prog = "find_stepsize" /\ pc = "done" /\ writes = 1
    /\ cal.nsub >= 2 /\ cal.b = cal.nsub


\* C11: in the Hamiltonian correction sampler a proposal whose energy is
\* non-finite is rejected whatever the Metropolis draw: the sample keeps the
\* value it had before the proposal, and the value a sample holds between
\* correction steps and at the return of the call is always finite.
C11_NonFiniteRejected ==
    prog = "hmc" =>
        \A i \in Samples :
            /\ IsFinite(hmc.x[i])
            /\ (hmc.k > 0 /\ ~IsFinite(hmc.last[i].prop)) =>
                  /\ ~hmc.last[i].accepted
                  /\ hmc.x[i] = hmc.last[i].prev

\* a returned call whose last step gave one sample a proposal of energy
\* -inf, while the other sample's finite proposal was taken
C11_Witness ==
    /\ prog = "hmc" /\ pc = "done"
    /\ \E i, j \in Samples :
          /\ hmc.last[i].prop = NegInf
          /\ hmc.x[i] = hmc.last[i].prev
          /\ hmc.last[j].accepted /\ hmc.x[j] # hmc.last[j].prev

\* C12: two calls of the Hamiltonian correction sampler on the same batch
\* that differ only in the proposals and draws of the samples other than
\* sample i give sample i the same decision and the same value at every
\* step; and in each call every sample of the batch has gone through the
\* same number of correction iterations.
C12_PerSampleIndependent ==
    prog = "hmc" =>
        /\ hmc.x[hmc.watch] = hmc2.x[hmc.watch]
        /\ hmc.last[hmc.watch] = hmc2.last[hmc.watch]
        /\ \A i \in Samples :
              /\ hmc.iters[i] = hmc.k
              /\ hmc2.iters[i] = hmc.k

\* two returned calls of two steps in which another sample was rejected in
\* one call and accepted in the other, while the watched sample moved
C12_Witness ==
    /\ prog = "hmc" /\ pc = "done" /\ hmc.k >= 2
    /\ hmc.last[hmc.watch].accepted
    /\ \E j \in Samples \ {hmc.watch} :
          /\ hmc.last[j].accepted /\ ~hmc2.last[j].accepted
          /\ hmc.x[j] # hmc2.x[j]
          /\ ~IsFinite(hmc2.last[j].prop)


StrictlyIncreasing(s) == \A i \in 1..(Len(s) - 1) : s[i] < s[i + 1]

\* C13: whenever find_stepsize.py has built its schedule from T full steps
\* and T' <= T respaced steps, the timestep sequence has exactly T' entries,
\* is strictly increasing, starts at 0 and holds no value above T-1; for
\* T' = T it is 0, 1, ..., T-1.
C13_RespacedTimesteps ==
    (prog = "find_stepsize" /\ pc = "scheduled") =>
        /\ args.respaced_num_diff_steps <= args.num_diff_steps
        /\ Len(time_steps) = args.respaced_num_diff_steps
        /\ StrictlyIncreasing(time_steps)
        /\ time_steps[1] = 0
        /\ \A i \in 1..Len(time_steps) : time_steps[i] <= args.num_diff_steps - 1
        /\ args.respaced_num_diff_steps = args.num_diff_steps =>
              \A i \in 1..Len(time_steps) : time_steps[i] = i - 1

\* a respaced schedule of at least three steps that leaves out indices
\* inside and keeps neighbours elsewhere
C13_Witness ==
    /\ prog = "find_stepsize" /\ pc = "scheduled"
    /\ args.respaced_num_diff_steps < args.num_diff_steps
    /\ Len(time_steps) >= 3
    /\ \E i \in 1..(Len(time_steps) - 1) : time_steps[i + 1] - time_steps[i] >= 2
    /\ \E i \in 1..(Len(time_steps) - 1) : time_steps[i + 1] - time_steps[i] = 1


\* distance of a statistic from the configured band
Dist(a) ==
    IF a < args.accept_rate_bound[1] THEN args.accept_rate_bound[1] - a
    ELSE IF a > args.accept_rate_bound[2] THEN a - args.accept_rate_bound[2]
    ELSE 0

\* the observations of a search fit an acceptance curve that is
\* non-increasing in the step size
Monotone(obs) ==
    \A i, j \in 1..Len(obs) :
        obs[i].level <= obs[j].level => obs[i].rate >= obs[j].rate

\* within the search of one timestep, the candidate that follows an
\* out-of-band statistic is larger if the statistic was below the band and
\* smaller if it was above
SearchDirection ==
    \A i \in 1..(Len(cal.obs) - 1) :
        /\ cal.obs[i].rate < args.accept_rate_bound[1] =>
              cal.obs[i + 1].level > cal.obs[i].level
        /\ cal.obs[i].rate > args.accept_rate_bound[2] =>
              cal.obs[i + 1].level < cal.obs[i].level

StackingRun == prog = "find_stepsize" /\ args.batch_size < args.num_samples

\* the first candidate of the search in progress, or of the search last
\* finished, and the timestep it is for
FirstCandidate == IF cal.obs = <<>> THEN cal.level ELSE cal.obs[1].level
SearchTimestep == IF cal.phase = "search" THEN cal.t - 1 ELSE cal.t

C15_State ==
    StackingRun =>
        /\ (/\ pc = "sampling" /\ cal.b > 1
            /\ (cal.phase = "search" \/ cal.obs # <<>>)) =>
              FirstCandidate = cal.res[SearchTimestep].step_sizes[cal.b - 1]
        /\ pc = "done" =>
              /\ file.exists
              /\ \A t \in 0..(args.respaced_num_diff_steps - 1) :
                    /\ Len(file.content[t].step_sizes)
                         = NumSubBatches(args.num_samples, args.batch_size)
                    /\ Extract(file.content)[t]
                         = file.content[t].step_sizes[
                               NumSubBatches(args.num_samples, args.batch_size)]

\* what sub-batch b resolves for a timestep becomes the b-th value recorded
\* for the timestep
C15_Resolves ==
    (StackingRun /\ pc = "sampling" /\ cal.phase = "search"
       /\ cal'.phase # "search") =>
        /\ Len(cal'.res[cal.t - 1].step_sizes) = cal.b
        /\ cal'.res[cal.t - 1].step_sizes[cal.b] = cal.level

\* C15: in a batch-stacking calibration run, the search of every timestep in
\* every sub-batch after the first starts from the step size the previous
\* sub-batch resolved for that timestep, and in the table written at the end
\* the entry of each timestep is the value the last sub-batch resolved.
C15_WarmStartLastWins ==
    /\ []C15_State
    /\ [][C15_Resolves]_vars

\* the second sub-batch starts a search from a step size that is not the
\* initial guess of the timestep
C15_Witness ==
    /\ StackingRun /\ pc = "sampling"
    /\ cal.b = 2 /\ cal.phase = "search" /\ cal.iter = 0
    /\ cal.level # InitialStep(cal.t - 1)
    /\ cal.level = cal.res[cal.t - 1].step_sizes[1]


\* a production run that has ended
SimEnded == prog = "simulation" /\ pc \in {"done", "error"}

\* the configuration passes validation and the assert of line 29
SimConfigOk == Validate(config) = "ok" /\ Multiple(config)

\* number of sample calls (full reverse loops) the process has made
SampleCalls == Cardinality({i \in 1..Len(device) : device[i] = "sample"})

\* C16: in a production run with a valid configuration, the correction
\* sampler has been invoked, by the time the run ends, at exactly the
\* timesteps t-1 of the respaced schedule that lie above the configured
\* lower cutoff if a correction sampler is configured, and at no timestep if
\* none is configured.
C16_CorrectionIffConfigured ==
    (SimEnded /\ SimConfigOk) =>
        cal.corrected =
            IF config.mcmc_method = "None" THEN {}
            ELSE {k \in 0..(config.num_respaced_diff_steps - 1) :
                      k > config.mcmc_lower_t}

\* C18: a production run with a valid configuration ends without an error
\* after exactly num_samples / batch_size sample calls, that is, after
\* num_samples outputs, and with the step-size files as it found them; a run
\* whose num_samples is no multiple of batch_size makes no sample call.
C18_AllSubBatchesSampled ==
    SimEnded =>
        /\ store = NoStore /\ file = NoFile
        /\ IF SimConfigOk
           THEN /\ err = "none"
                /\ SampleCalls * config.batch_size = config.num_samples
           ELSE SampleCalls = 0


\* the timesteps whose record gets an entry in this step
Appended == {t \in DOMAIN cal.res : Len(cal'.res[t].n_iter) > Len(cal.res[t].n_iter)}

C19_LastOfNonEmpty ==
    (prog = "get_step_size" /\ pc = "done") =>
        LET tbl == store[PathOf(query)]
        IN  /\ loaded.returned
            /\ \A t \in DOMAIN tbl :
                  t \in DOMAIN loaded.mapping <=> Len(tbl[t].step_sizes) > 0
            /\ \A t \in DOMAIN loaded.mapping :
                  /\ t \in DOMAIN tbl
                  /\ loaded.mapping[t] = tbl[t].step_sizes[Len(tbl[t].step_sizes)]

\* a table with two step sizes per calibrated timestep and an empty top
\* timestep has been read
C19_Witness ==
    /\ prog = "get_step_size" /\ pc = "done"
    /\ DOMAIN loaded.mapping = {0, 1}
    /\ DOMAIN store[PathOf(query)] = {0, 1, 2}
    /\ \A t \in {0, 1} :
          /\ Len(store[PathOf(query)][t].step_sizes) = 2
          /\ loaded.mapping[t] # store[PathOf(query)][t].step_sizes[1]


\* this step is a call of the named DiffusionClassifier callback
Called(name) == clf'.last = name /\ <<clf, pc>>' # <<clf, pc>>

C20_State ==
    prog = "classifier" =>
        /\ clf.i_batch_train = clf.since_train
        /\ clf.i_batch_val = clf.since_val

C20_Callbacks ==
    prog = "classifier" =>
        /\ Called("on_train_epoch_end") =>
              /\ clf'.train_loss = 0
              /\ clf'.i_batch_train = 0
              /\ clf'.i_epoch = clf.i_epoch + 1
        /\ Called("on_validation_epoch_end") =>
              /\ clf'.val_loss = 0
              /\ clf'.val_acc = 0
              /\ clf'.i_batch_val = 0
              /\ clf'.i_epoch = clf.i_epoch
              /\ clf'.train_loss = clf.train_loss
              /\ clf'.i_batch_train = clf.i_batch_train

\* C20: whatever callbacks the framework calls in whatever order,
\* i_batch_train is the number of training_step calls since the last
\* on_train_epoch_end and i_batch_val the number of validation_step calls
\* since the last on_validation_epoch_end; every call of on_train_epoch_end
\* leaves train_loss and i_batch_train at 0 and i_epoch one higher; every
\* call of on_validation_epoch_end leaves val_loss, val_acc and i_batch_val
\* at 0 and i_epoch and the training counters as they were.
C20_CountersFollowCallbacks ==
    /\ []C20_State
    /\ [][C20_Callbacks]_vars


\* the validation step just made drew its timesteps and noise from a
\* generator freshly seeded with the index of its batch in the epoch
C21_State ==
    (prog = "classifier" /\ clf.last = "validation_step") =>
        /\ clf.val_ts = Draw(NewRng(clf.i_batch_val - 1))
        /\ clf.val_noise = Draw(Advance(NewRng(clf.i_batch_val - 1)))

\* a validation step leaves the generator the training steps draw from, and
\* the CPU generator, as it found them
C21_StreamKept ==
    (prog = "classifier" /\ Called("validation_step")) =>
        /\ DeviceRng(clf') = DeviceRng(clf)
        /\ clf'.cpu_rng = clf.cpu_rng

\* C21: the k-th validation step of every validation epoch draws the same
\* timesteps and noise (those of a generator seeded with k-1) whatever the
\* generators held on entry, and a validation step leaves the random stream
\* the training steps draw from where it found it.
C21_SeededAndRestored ==
    /\ []C21_State
    /\ [][C21_StreamKept]_vars

=============================================================================
